---- MODULE Spec2Model ----
(***************************************************************************)
(* Model of the log-to-session feature pipeline of psu-lib-ia:             *)
(*   - DataCLFReader.logs_to_df        (batched ingestion of a log file)   *)
(*   - DataTransformer.transform_add_session_info (session segmentation)   *)
(*   - DataTransformer geo cache: __init__/_load_cache/save_cache/         *)
(*     get_country_from_ip/transform_add_countrycode                       *)
(*   - main: the stages of the pipeline in the order main calls them       *)
(* Specifications: SpecIngest, SpecSession, SpecGeo and SpecMain (main).   *)
(***************************************************************************)
EXTENDS Integers, Sequences, FiniteSets, TLC

(***************************************************************************)
(* Bounds of the model.                                                    *)
(***************************************************************************)
\* longest log file (number of lines) the ingestion model reads
MaxLines == 11

\* The flush threshold of logs_to_df.  The program uses 250_000; the model
\* scales it down to 5 so that several full batches, an exact multiple and a
\* cumulative count with one more decimal digit (10, as 1_000_000 in the
\* program) are all reached within MaxLines lines.
FlushThreshold == 5

\* The degenerate threshold the batch-boundary claim compares against.
EveryRecord == 1

Thresholds == {EveryRecord, FlushThreshold}

\* largest table (number of rows) handed to transform_add_session_info
MaxRows == 4

\* client addresses, in the order their strings sort
ClientOrder == <<"A", "B">>
Clients == {ClientOrder[i] : i \in DOMAIN ClientOrder}

\* request timestamps, in minutes
Times == {0, 10, 40, 45, 80}

\* DataTransformer(session_minutes = 30)
session_minutes == 30

\* milliseconds per minute: .dt.total_seconds() * 1000 on minute timestamps
MsPerMinute == 60000

\* addresses the geo model resolves
Addrs == {"a1", "a2"}

\* longest column handed to transform_add_countrycode
MaxCol == 2

\* cap of the per-run count of lookups of one address
MaxRequests == 2

\* what the lookup service does with a request: a response with a country
\* code, a well-formed response without one, or a failure (timeout, network
\* error, malformed response)
Answers == {"ok", "nocountry", "fail"}

\* outcomes of opening and reading or writing the cache file
IOResults == {"ok", "failed"}

\* largest RawTable (number of rows) the pipeline model runs on
MaxPipeRows == 3

\* the methods class DataCleaner defines
DataCleanerMethods ==
    {"__init__", "delete_rows_with_faulting_category", "info_missing_values"}

VARIABLES
    \* ---- DataCLFReader.logs_to_df ----
    source_file,   \* the lines read so far: TRUE = matches the regex
    ing,           \* per threshold: linenumber, parsed_lines, dir, errors, df
    ing_pc,        \* "reading" | "exhausted" | "done"
    \* ---- DataTransformer.transform_add_session_info ----
    df,            \* the table handed to the transform: rows [client, datetime]
    df_copy,       \* the table it returns
    sess_pc,       \* "building" | "done"
    \* ---- DataTransformer: geo cache and lookup ----
    cache_file,    \* self.cache_file: TRUE = a path was given, FALSE = None
    ip_cache,      \* self.ip_cache: address -> code
    disk,          \* the cache file: [exists, data], data = the JSON members
    load_result,   \* the branch _load_cache took for the live instance
    requests,      \* per address: lookups sent to the service in this run
    sleeps,        \* number of time.sleep(self.delay) done in this run
    call,          \* the last call made on the transformer and what it returned
    geo_pc,        \* "none" (no instance yet) | "live"
    \* ---- main: the pipeline ----
    raw_df,         \* df: the RawTable logs_to_df returned
    transformed_df, \* transformed_df
    cleaned_df,     \* cleaned_df
    main_pc         \* the statement main has reached, or "raised"

ingest_vars == <<source_file, ing, ing_pc>>
session_vars == <<df, df_copy, sess_pc>>
geo_vars == <<cache_file, ip_cache, disk, load_result, requests, sleeps, call, geo_pc>>
main_vars == <<raw_df, transformed_df, cleaned_df, main_pc>>
vars == <<ingest_vars, session_vars, geo_vars, main_vars>>

(***************************************************************************)
(* Helpers on sequences.                                                   *)
(***************************************************************************)
RECURSIVE SumLen(_, _)
\* total number of records held in the files `names` of directory d
SumLen(d, names) ==
    IF names = {} THEN 0
    ELSE LET n == CHOOSE x \in names : TRUE
         IN  Len(d[n]) + SumLen(d, names \ {n})

RECURSIVE Digits(_)
\* f'{linenumber}': the decimal digits of a natural number
Digits(n) == IF n < 10 THEN <<n>> ELSE Append(Digits(n \div 10), n % 10)

RECURSIVE LexLess(_, _)
\* string order of two digit strings followed by the same suffix ".parquet"
\* ('.' sorts before every digit, so a proper prefix sorts first)
LexLess(a, b) ==
    IF a = <<>> THEN b # <<>>
    ELSE IF b = <<>> THEN FALSE
    ELSE IF Head(a) # Head(b) THEN Head(a) < Head(b)
    ELSE LexLess(Tail(a), Tail(b))

\* path order of two batch files file_<m>.parquet and file_<n>.parquet
PathLess(m, n) == LexLess(Digits(m), Digits(n))

RECURSIVE read_parquet(_, _)
\* pd.read_parquet(output_dir): the files `names` of the directory are
\* discovered, sorted by path and concatenated
read_parquet(d, names) ==
    IF names = {} THEN <<>>
    ELSE LET first == CHOOSE x \in names : \A y \in names \ {x} : PathLess(x, y)
         IN  d[first] \o read_parquet(d, names \ {first})

\* df.to_parquet(f'{output_dir}/file_{linenumber}.parquet'): creates the file
\* or replaces the one of that name
to_parquet(d, n, rows) == [k \in DOMAIN d \cup {n} |-> IF k = n THEN rows ELSE d[k]]

(***************************************************************************)
(* DataCLFReader.logs_to_df                                                *)
(***************************************************************************)
IngestInit ==
    /\ source_file = <<>>
    /\ ing = [t \in Thresholds |->
                [linenumber |-> 0, parsed_lines |-> <<>>, dir |-> <<>>,
                 errors |-> <<>>, df |-> <<>>]]
    /\ ing_pc = "reading"

\* mutant: the except branch lacks its `continue`, the failed line is counted
LoopBody_ErrorCounted(r, t, id, matches) ==
    IF ~matches
    THEN [r EXCEPT !.errors = Append(@, id), !.linenumber = @ + 1]
    ELSE LET buf == Append(r.parsed_lines, id)
             n   == r.linenumber + 1
         IN  IF n % t = 0
             THEN [r EXCEPT !.linenumber = n,
                            !.dir = to_parquet(r.dir, n, buf),
                            !.parsed_lines = <<>>]
             ELSE [r EXCEPT !.linenumber = n, !.parsed_lines = buf]

\* one iteration of the for loop over the line numbered `id`, under flush
\* threshold t, on the ingester state r
LoopBody(r, t, id, matches) ==
    IF ~matches
    THEN \* re.findall(...)[0] raises: the line goes to the error sink
         [r EXCEPT !.errors = Append(@, id)]
    ELSE LET buf == Append(r.parsed_lines, id)
             n   == r.linenumber + 1
         IN  IF n % t = 0
             THEN [r EXCEPT !.linenumber = n,
                            !.dir = to_parquet(r.dir, n, buf),
                            !.parsed_lines = <<>>]
             ELSE [r EXCEPT !.linenumber = n, !.parsed_lines = buf]

\* the else branch of the for loop: the final flush
FinalFlush(r) ==
    [r EXCEPT !.dir = to_parquet(r.dir, r.linenumber, r.parsed_lines),
              !.parsed_lines = <<>>]

\* the next line of the log is read (it matches the pattern or not)
ReadLine(matches) ==
    /\ ing_pc = "reading"
    /\ Len(source_file) < MaxLines
    /\ source_file' = Append(source_file, matches)
    /\ ing' = [t \in Thresholds |->
                 LoopBody(ing[t], t, Len(source_file) + 1, matches)]
    /\ UNCHANGED <<ing_pc, session_vars, geo_vars, main_vars>>

\* the stream is exhausted
EndOfFile ==
    /\ ing_pc = "reading"
    /\ ing' = [t \in Thresholds |-> FinalFlush(ing[t])]
    /\ ing_pc' = "exhausted"
    /\ UNCHANGED <<source_file, session_vars, geo_vars, main_vars>>

\* df = pd.read_parquet(output_dir); return df
Reload ==
    /\ ing_pc = "exhausted"
    /\ ing' = [t \in Thresholds |->
                 [ing[t] EXCEPT !.df = read_parquet(ing[t].dir, DOMAIN ing[t].dir)]]
    /\ ing_pc' = "done"
    /\ UNCHANGED <<source_file, session_vars, geo_vars, main_vars>>

(***************************************************************************)
(* DataTransformer.transform_add_session_info                              *)
(***************************************************************************)
\* position of a client address in string order
RECURSIVE ClientRankFrom(_, _)
ClientRankFrom(c, i) == IF ClientOrder[i] = c THEN i ELSE ClientRankFrom(c, i + 1)
ClientRank(c) == ClientRankFrom(c, 1)

\* the sort key of sort_values(by=['client', 'datetime'])
RowLess(a, b) ==
    \/ ClientRank(a.client) < ClientRank(b.client)
    \/ a.client = b.client /\ a.datetime < b.datetime

RECURSIVE InsertRow(_, _)
\* r is placed behind every row that does not sort after it (ties keep order)
InsertRow(s, r) ==
    IF s = <<>> THEN <<r>>
    ELSE IF RowLess(r, s[Len(s)]) THEN Append(InsertRow(SubSeq(s, 1, Len(s) - 1), r), s[Len(s)])
    ELSE Append(s, r)

RECURSIVE SortPrefix(_, _)
SortPrefix(t, n) == IF n = 0 THEN <<>> ELSE InsertRow(SortPrefix(t, n - 1), t[n])

\* mutant: the table is left in arrival order
sort_values_Unsorted(t) == t

\* df_copy.sort_values(by=['client', 'datetime'])
sort_values(t) == SortPrefix(t, Len(t))

\* groupby('client')['datetime'].diff().fillna(Timedelta(0)): the difference
\* to the previous row of the same client, 0 for the first row of a client
ClientDiff(s, i) ==
    IF i > 1 /\ s[i - 1].client = s[i].client
    THEN s[i].datetime - s[i - 1].datetime
    ELSE 0

\* mutant: a gap equal to the session window already starts a session
Crossing_Ge(s, i) == ClientDiff(s, i) >= session_minutes

\* .gt(pd.Timedelta(minutes=self.session_minutes))
Crossing(s, i) == ClientDiff(s, i) > session_minutes

\* mutant: the crossings are counted within the client of row i only
session_id_PerClient(s, i) ==
    Cardinality({j \in 1..i : s[j].client = s[i].client /\ Crossing(s, j)})

\* .cumsum(): the running count of crossings over the rows of the whole table
session_id(s, i) == Cardinality({j \in 1..i : Crossing(s, j)})

\* mutant: the id is the running count alone, without the client address
session_global_id_NoClient(s, i) == <<"", session_id(s, i)>>

\* df_copy['client'] + '_' + df_copy['session_id'].astype(str): the pair
\* stands for the string, which determines both of its parts
session_global_id(s, i) == <<s[i].client, session_id(s, i)>>

\* groupby('session_global_id')['datetime'].diff(): the rows before row i
\* that carry the same session_global_id
SameSessionBefore(s, i) ==
    {j \in 1..(i - 1) : session_global_id(s, j) = session_global_id(s, i)}

\* ... .dt.total_seconds().fillna(0) * 1000
datetime_delta_ms_in_session(s, i) ==
    LET before == SameSessionBefore(s, i)
    IN  IF before = {} THEN 0
        ELSE LET j == CHOOSE x \in before : \A y \in before : y <= x
             IN  (s[i].datetime - s[j].datetime) * MsPerMinute

\* the table transform_add_session_info returns (column session_id dropped)
transform_add_session_info(t) ==
    LET s == sort_values(t)
    IN  [i \in 1..Len(s) |->
            [index |-> s[i].index, client |-> s[i].client, datetime |-> s[i].datetime,
             session_global_id |-> session_global_id(s, i),
             datetime_delta_ms_in_session |-> datetime_delta_ms_in_session(s, i)]]

SessionInit == df = <<>> /\ df_copy = <<>> /\ sess_pc = "building"

\* one more request row reaches the table (rows arrive in any order)
AddRow(c, t) ==
    /\ sess_pc = "building"
    /\ Len(df) < MaxRows
    /\ df' = Append(df, [index |-> Len(df), client |-> c, datetime |-> t])
    /\ UNCHANGED <<df_copy, sess_pc, ingest_vars, geo_vars, main_vars>>

TransformAddSessionInfo ==
    /\ sess_pc = "building"
    /\ df_copy' = transform_add_session_info(df)
    /\ sess_pc' = "done"
    /\ UNCHANGED <<df, ingest_vars, geo_vars, main_vars>>

(***************************************************************************)
(* DataTransformer: __init__, _load_cache, save_cache, get_country_from_ip *)
(* and transform_add_countrycode                                           *)
(***************************************************************************)
EmptyMap == [a \in {} |-> "Unknown"]

NoRequests == [a \in Addrs |-> 0]

NoCall == [op |-> "-", ips |-> <<>>, outcomes |-> <<>>, rets |-> <<>>, io |-> "-"]

\* m with key k set to v (self.ip_cache[ip] = ...)
Put(m, k, v) == [a \in DOMAIN m \cup {k} |-> IF a = k THEN v ELSE m[a]]

GeoInit ==
    /\ cache_file = FALSE
    /\ ip_cache = EmptyMap
    /\ disk = [exists |-> FALSE, data |-> {}]
    /\ load_result = "-"
    /\ requests = NoRequests
    /\ sleeps = 0
    /\ call = NoCall
    /\ geo_pc = "none"

\* json.dump(self.ip_cache, f, ...): the text of a JSON object, held as the
\* set of its members "key": "value"
json_dump(m) == {<<a, m[a]>> : a \in DOMAIN m}

\* json.load(f): the mapping a JSON object's members denote
json_load(text) ==
    [a \in {p[1] : p \in text} |-> (CHOOSE p \in text : p[1] = a)[2]]

\* _load_cache on the file d, read outcome io: the mapping it leaves in
\* self.ip_cache (which __init__ has set to {} before) and the branch taken
_load_cache(d, io) ==
    IF ~d.exists THEN [ip_cache |-> EmptyMap, result |-> "nofile"]
    ELSE IF io = "ok" THEN [ip_cache |-> json_load(d.data), result |-> "ok"]
    ELSE [ip_cache |-> EmptyMap, result |-> "failed"]

\* mutant: the test of self.cache_file is missing
save_cache_NoGuard(cfg, m, d, io) ==
    IF io = "ok" THEN [disk |-> [exists |-> TRUE, data |-> json_dump(m)], result |-> "ok"]
    ELSE [disk |-> d, result |-> "failed"]

\* save_cache of mapping m of an instance configured with cfg, write outcome
\* io: the file afterwards and what happened
save_cache(cfg, m, d, io) ==
    IF ~cfg THEN [disk |-> d, result |-> "noop"]
    ELSE IF io = "ok"
         THEN [disk |-> [exists |-> TRUE, data |-> json_dump(m)], result |-> "ok"]
    ELSE [disk |-> d, result |-> "failed"]

\* mutant: a failed lookup is returned but not stored
get_country_from_ip_ErrorNotCached(g, ip, answer) ==
    IF ip \in DOMAIN g.ip_cache
    THEN [g EXCEPT !.ret = g.ip_cache[ip], !.outcome = "cached"]
    ELSE LET sent == [g EXCEPT !.requests[ip] = @ + 1, !.outcome = answer]
         IN  CASE answer = "ok" ->
                    [sent EXCEPT !.ip_cache = Put(g.ip_cache, ip, "ES"),
                                 !.sleeps = @ + 1, !.ret = "ES"]
               [] answer = "nocountry" ->
                    [sent EXCEPT !.ip_cache = Put(g.ip_cache, ip, "Unknown"),
                                 !.sleeps = @ + 1, !.ret = "Unknown"]
               [] answer = "fail" ->
                    [sent EXCEPT !.ret = "Error"]

\* mutant: an address cached as 'Error' is looked up again
get_country_from_ip_RetryErrors(g, ip, answer) ==
    IF ip \in DOMAIN g.ip_cache /\ g.ip_cache[ip] # "Error"
    THEN [g EXCEPT !.ret = g.ip_cache[ip], !.outcome = "cached"]
    ELSE LET sent == [g EXCEPT !.requests[ip] = @ + 1, !.outcome = answer]
         IN  CASE answer = "ok" ->
                    [sent EXCEPT !.ip_cache = Put(g.ip_cache, ip, "ES"),
                                 !.sleeps = @ + 1, !.ret = "ES"]
               [] answer = "nocountry" ->
                    [sent EXCEPT !.ip_cache = Put(g.ip_cache, ip, "Unknown"),
                                 !.sleeps = @ + 1, !.ret = "Unknown"]
               [] answer = "fail" ->
                    [sent EXCEPT !.ip_cache = Put(g.ip_cache, ip, "Error"),
                                 !.ret = "Error"]

\* get_country_from_ip(ip) on the transformer state g = [ip_cache, requests,
\* sleeps, ret, outcome], the service answering `answer` if it is asked
get_country_from_ip(g, ip, answer) ==
    IF ip \in DOMAIN g.ip_cache
    THEN [g EXCEPT !.ret = g.ip_cache[ip], !.outcome = "cached"]
    ELSE LET sent == [g EXCEPT !.requests[ip] = @ + 1, !.outcome = answer]
         IN  CASE answer = "ok" ->
                    \* data.get('country_code', 'Unknown') finds the field
                    [sent EXCEPT !.ip_cache = Put(g.ip_cache, ip, "ES"),
                                 !.sleeps = @ + 1, !.ret = "ES"]
               [] answer = "nocountry" ->
                    [sent EXCEPT !.ip_cache = Put(g.ip_cache, ip, "Unknown"),
                                 !.sleeps = @ + 1, !.ret = "Unknown"]
               [] answer = "fail" ->
                    \* except Exception: stored and returned, no sleep
                    [sent EXCEPT !.ip_cache = Put(g.ip_cache, ip, "Error"),
                                 !.ret = "Error"]

\* the transformer state get_country_from_ip works on
Transformer == [ip_cache |-> ip_cache, requests |-> requests, sleeps |-> sleeps,
                ret |-> "-", outcome |-> "-"]

RECURSIVE ApplyColumn(_, _, _, _)
\* df_copy[ip_col].progress_apply(self.get_country_from_ip) on the first n
\* rows of column col: the transformer state and the values and outcomes so far
ApplyColumn(g, col, answers, n) ==
    IF n = 0 THEN [g |-> g, rets |-> <<>>, outcomes |-> <<>>]
    ELSE LET before == ApplyColumn(g, col, answers, n - 1)
             after  == get_country_from_ip(before.g, col[n], answers[col[n]])
         IN  [g |-> after,
              rets |-> Append(before.rets, after.ret),
              outcomes |-> Append(before.outcomes, after.outcome)]

\* An input that is never consulted is fixed to "ok", so that equal steps
\* are not enumerated once per immaterial value: the outcome io of a file
\* access that does not take place, the answer of a service that is not asked.
Relevant(accessed, io) == accessed \/ io = "ok"

\* DataTransformer(token, cache_file, ...): a new run starts
Construct(cfg, io) ==
    /\ Relevant(cfg /\ disk.exists, io)
    /\ LET loaded == IF cfg THEN _load_cache(disk, io)
                     ELSE [ip_cache |-> EmptyMap, result |-> "unconfigured"]
       IN  /\ ip_cache' = loaded.ip_cache
           /\ load_result' = loaded.result
           /\ call' = [NoCall EXCEPT !.op = "__init__", !.io = loaded.result]
    /\ cache_file' = cfg
    /\ requests' = NoRequests
    /\ sleeps' = 0
    /\ geo_pc' = "live"
    /\ UNCHANGED <<disk, ingest_vars, session_vars, main_vars>>

GetCountryFromIp(ip, answer) ==
    /\ geo_pc = "live"
    /\ requests[ip] < MaxRequests
    /\ ip \in DOMAIN ip_cache => answer = "ok"
    /\ LET g == get_country_from_ip(Transformer, ip, answer)
       IN  /\ ip_cache' = g.ip_cache
           /\ requests' = g.requests
           /\ sleeps' = g.sleeps
           /\ call' = [NoCall EXCEPT !.op = "get_country_from_ip", !.ips = <<ip>>,
                                     !.outcomes = <<g.outcome>>, !.rets = <<g.ret>>]
    /\ UNCHANGED <<cache_file, disk, load_result, geo_pc, ingest_vars, session_vars, main_vars>>

SaveCache(io) ==
    /\ geo_pc = "live"
    /\ Relevant(cache_file, io)
    /\ LET saved == save_cache(cache_file, ip_cache, disk, io)
       IN  /\ disk' = saved.disk
           /\ call' = [NoCall EXCEPT !.op = "save_cache", !.io = saved.result]
    /\ UNCHANGED <<cache_file, ip_cache, load_result, requests, sleeps, geo_pc,
                   ingest_vars, session_vars, main_vars>>

\* transform_add_countrycode(df, ip_col): every row of the column is
\* resolved, then the cache is saved
TransformAddCountrycode(col, answers, io) ==
    /\ geo_pc = "live"
    /\ \A i \in DOMAIN col : requests[col[i]] < MaxRequests
    /\ Relevant(cache_file, io)
    /\ \A a \in Addrs :
          (a \in DOMAIN ip_cache \/ \A i \in DOMAIN col : col[i] # a) => answers[a] = "ok"
    /\ LET applied == ApplyColumn(Transformer, col, answers, Len(col))
           saved   == save_cache(cache_file, applied.g.ip_cache, disk, io)
       IN  /\ ip_cache' = applied.g.ip_cache
           /\ requests' = applied.g.requests
           /\ sleeps' = applied.g.sleeps
           /\ disk' = saved.disk
           /\ call' = [op |-> "transform_add_countrycode", ips |-> col,
                       outcomes |-> applied.outcomes, rets |-> applied.rets,
                       io |-> saved.result]
    /\ UNCHANGED <<cache_file, load_result, geo_pc, ingest_vars, session_vars, main_vars>>

\* the columns of at most MaxCol addresses
Columns == UNION {[1..n -> Addrs] : n \in 0..MaxCol}

\* the transformer is not in use
GeoIdle ==
    /\ cache_file = FALSE
    /\ ip_cache = EmptyMap
    /\ disk = [exists |-> FALSE, data |-> {}]
    /\ load_result = "-"
    /\ requests = NoRequests
    /\ sleeps = 0
    /\ call = NoCall
    /\ geo_pc = "idle"

(***************************************************************************)
(* main: the pipeline.  A row of the tables is a record of the columns a   *)
(* stage reads or writes; `line` stands for the columns no stage touches   *)
(* (request, status, ...), which tell the ingested records apart; a        *)
(* missing value (NaN) is <<>> and a present value v is <<v>>.             *)
(***************************************************************************)
MainInit ==
    /\ raw_df = <<>>
    /\ transformed_df = <<>>
    /\ cleaned_df = <<>>
    /\ main_pc = "logs_to_df"

\* the transformer main constructs, before its first lookup
MainTransformer ==
    [ip_cache |-> EmptyMap, requests |-> [c \in Clients |-> 0], sleeps |-> 0,
     ret |-> "-", outcome |-> "-"]

\* transform_add_countrycode(df, "client", "country_code"): the column of
\* the values get_country_from_ip returns for the client of each row
transform_add_countrycode(t, answers) ==
    LET col     == [i \in 1..Len(t) |-> t[i].client]
        applied == ApplyColumn(MainTransformer, col, answers, Len(t))
    IN  [i \in 1..Len(t) |->
            [index |-> t[i].index, line |-> t[i].line, client |-> t[i].client,
             datetime |-> t[i].datetime, country_code |-> applied.rets[i]]]

\* transform_add_datetime_delta_between_requests: datetime.diff() in table
\* order, in milliseconds; the first row has no previous row
transform_add_datetime_delta_between_requests(t) ==
    [i \in 1..Len(t) |->
        [index |-> t[i].index, line |-> t[i].line, client |-> t[i].client,
         datetime |-> t[i].datetime, country_code |-> t[i].country_code,
         datetime_delta_ms |->
            IF i = 1 THEN <<>>
            ELSE <<(t[i].datetime - t[i - 1].datetime) * MsPerMinute>>]]

\* transform_add_session_info on the table of the pipeline: the columns it
\* finds are kept, the two session columns are added.  (main passes
\* session_minutes=20; the operators of the session model cut at the default
\* window, which moves the cuts and nothing else.)
main_add_session_info(t) ==
    LET s == sort_values(t)
    IN  [i \in 1..Len(s) |->
            [index |-> s[i].index, line |-> s[i].line, client |-> s[i].client,
             datetime |-> s[i].datetime, country_code |-> s[i].country_code,
             datetime_delta_ms |-> s[i].datetime_delta_ms,
             session_global_id |-> session_global_id(s, i),
             datetime_delta_ms_in_session |-> datetime_delta_ms_in_session(s, i)]]

\* a row with a missing value in some column
HasMissing(r) == r.datetime_delta_ms = <<>>

RECURSIVE dropna(_)
\* df_copy.dropna(): the rows without a missing value, in their order
dropna(t) ==
    IF t = <<>> THEN <<>>
    ELSE IF HasMissing(t[Len(t)]) THEN dropna(SubSeq(t, 1, Len(t) - 1))
    ELSE Append(dropna(SubSeq(t, 1, Len(t) - 1)), t[Len(t)])

\* df_clean.reset_index(drop=True)
reset_index(t) == [i \in 1..Len(t) |-> [t[i] EXCEPT !.index = i - 1]]

\* mutant: the index is not reset
delete_rows_with_faulting_category_NoReset(t) == dropna(t)

\* DataCleaner.delete_rows_with_faulting_category
delete_rows_with_faulting_category(t) == reset_index(dropna(t))

\* logs_to_df hands over one more parsed record
MainIngestRow(c, t) ==
    /\ main_pc = "logs_to_df"
    /\ Len(raw_df) < MaxPipeRows
    /\ raw_df' = Append(raw_df, [index |-> Len(raw_df), line |-> Len(raw_df) + 1,
                                 client |-> c, datetime |-> t])
    /\ UNCHANGED <<transformed_df, cleaned_df, main_pc, ingest_vars, session_vars, geo_vars>>

\* main.py:37
MainAddCountrycode(answers) ==
    /\ main_pc = "logs_to_df"
    /\ \A c \in Clients :
          (\A i \in DOMAIN raw_df : raw_df[i].client # c) => answers[c] = "ok"
    /\ transformed_df' = transform_add_countrycode(raw_df, answers)
    /\ main_pc' = "transform_add_datetime_delta_between_requests"
    /\ UNCHANGED <<raw_df, cleaned_df, ingest_vars, session_vars, geo_vars>>

\* main.py:39
MainAddDatetimeDelta ==
    /\ main_pc = "transform_add_datetime_delta_between_requests"
    /\ transformed_df' = transform_add_datetime_delta_between_requests(transformed_df)
    /\ main_pc' = "transform_add_session_info"
    /\ UNCHANGED <<raw_df, cleaned_df, ingest_vars, session_vars, geo_vars>>

\* main.py:41
MainAddSessionInfo ==
    /\ main_pc = "transform_add_session_info"
    /\ transformed_df' = main_add_session_info(transformed_df)
    /\ main_pc' = "delete_rows_with_faulting_category"
    /\ UNCHANGED <<raw_df, cleaned_df, ingest_vars, session_vars, geo_vars>>

\* main.py:47
MainDeleteRows ==
    /\ main_pc = "delete_rows_with_faulting_category"
    /\ cleaned_df' = delete_rows_with_faulting_category(transformed_df)
    /\ main_pc' = "delete_column"
    /\ UNCHANGED <<raw_df, transformed_df, ingest_vars, session_vars, geo_vars>>

\* main.py:49: cleaner.delete_column(cleaned_df, 'userid').  The attribute
\* is looked up on the DataCleaner instance; a name the class does not
\* define raises AttributeError, which main does not catch.
MainDeleteColumn ==
    /\ main_pc = "delete_column"
    /\ main_pc' = IF "delete_column" \in DataCleanerMethods
                  THEN "delete_column_client" ELSE "raised"
    /\ UNCHANGED <<raw_df, transformed_df, cleaned_df, ingest_vars, session_vars, geo_vars>>

\* main is not running
MainIdle ==
    /\ raw_df = <<>>
    /\ transformed_df = <<>>
    /\ cleaned_df = <<>>
    /\ main_pc = "idle"

\* the log reader is not in use
IngestIdle ==
    /\ source_file = <<>>
    /\ ing = [t \in Thresholds |-> <<>>]
    /\ ing_pc = "idle"

\* the session table is not in use
SessionIdle == df = <<>> /\ df_copy = <<>> /\ sess_pc = "idle"

IngestNext ==
    \/ \E matches \in BOOLEAN : ReadLine(matches)
    \/ EndOfFile
    \/ Reload

\* logs_to_df starts on a log file; nothing else runs
InitIngest == IngestInit /\ SessionIdle /\ GeoIdle /\ MainIdle

SpecIngest == InitIngest /\ [][IngestNext]_vars

SessionNext ==
    \/ \E c \in Clients, t \in Times : AddRow(c, t)
    \/ TransformAddSessionInfo

\* a table is built and handed to transform_add_session_info
InitSession == SessionInit /\ IngestIdle /\ GeoIdle /\ MainIdle

SpecSession == InitSession /\ [][SessionNext]_vars

GeoNext ==
    \/ \E cfg \in BOOLEAN, io \in IOResults : Construct(cfg, io)
    \/ \E ip \in Addrs, answer \in Answers : GetCountryFromIp(ip, answer)
    \/ \E io \in IOResults : SaveCache(io)
    \/ \E col \in Columns, answers \in [Addrs -> Answers], io \in IOResults :
          TransformAddCountrycode(col, answers, io)

\* runs of the transformer on one cache file, one instance at a time
InitGeo == GeoInit /\ IngestIdle /\ SessionIdle /\ MainIdle

SpecGeo == InitGeo /\ [][GeoNext]_vars

MainNext ==
    \/ \E c \in Clients, t \in Times : MainIngestRow(c, t)
    \/ \E answers \in [Clients -> Answers] : MainAddCountrycode(answers)
    \/ MainAddDatetimeDelta
    \/ MainAddSessionInfo
    \/ MainDeleteRows
    \/ MainDeleteColumn

\* main runs on a log file
InitMain == MainInit /\ IngestIdle /\ SessionIdle /\ GeoIdle

SpecMain == InitMain /\ [][MainNext]_vars

\* the ingester the program runs (threshold 250_000, scaled)
prog == ing[FlushThreshold]
\* the degenerate every-record ingester
every == ing[EveryRecord]

\* the rows of table s carry increasing line numbers
IsIncreasing(s) == \A i \in 1..(Len(s) - 1) : s[i] < s[i + 1]

(***************************************************************************)
(* C1: ingestion completeness.  After logs_to_df finishes, the number of   *)
(* records held in the batch files it wrote equals the number of input     *)
(* lines minus the number of lines written to the error sink.              *)
(***************************************************************************)
C1_IngestionComplete ==
    ing_pc = "done" =>
        SumLen(prog.dir, DOMAIN prog.dir) = Len(source_file) - Len(prog.errors)

(***************************************************************************)
(* C2: batch boundary invariance.  The table reloaded from the batches     *)
(* written with the program's threshold is the same sequence of rows as    *)
(* the one reloaded from the batches written with threshold 1.             *)
(***************************************************************************)
C2_BatchBoundaryInvariant ==
    ing_pc = "done" => prog.df = every.df

(***************************************************************************)
(* C3: the RawTable returned by logs_to_df lists the parsed records in the *)
(* order their lines appear in the input.                                  *)
(***************************************************************************)
C3_RawTableInInputOrder ==
    ing_pc = "done" => IsIncreasing(prog.df)

(***************************************************************************)
(* Views of the returned table used by the session claims.                 *)
(***************************************************************************)
out == df_copy
OutRows == 1..Len(out)
SeqNo(i) == out[i].session_global_id[2]
\* rows i and i+1 are requests of one client, consecutive by timestamp
ConsecutiveOfClient(i) == i + 1 <= Len(out) /\ out[i].client = out[i + 1].client
Gap(i) == out[i + 1].datetime - out[i].datetime
RowsOfClient(c) == {i \in OutRows : out[i].client = c}

CrossingsBefore(i) ==
    Cardinality({j \in 1..(i - 1) : ConsecutiveOfClient(j) /\ Gap(j) > session_minutes})

C5_SessionBoundary ==
    sess_pc = "done" =>
        \A i \in OutRows : ConsecutiveOfClient(i) =>
            (out[i].session_global_id = out[i + 1].session_global_id
                <=> Gap(i) <= session_minutes)

\* a gap exactly equal to the window inside a session, and a larger gap
\* that starts a new one
C5_Witness ==
    /\ sess_pc = "done"
    /\ \E i \in OutRows :
          /\ ConsecutiveOfClient(i) /\ Gap(i) = session_minutes
          /\ out[i].session_global_id = out[i + 1].session_global_id
    /\ \E i \in OutRows :
          /\ ConsecutiveOfClient(i) /\ Gap(i) > session_minutes
          /\ out[i].session_global_id # out[i + 1].session_global_id

\* row j comes before row i when a session's rows are taken in timestamp
\* order (rows of equal timestamp in table order)
EarlierInSession(j, i) ==
    /\ out[j].session_global_id = out[i].session_global_id
    /\ \/ out[j].datetime < out[i].datetime
       \/ out[j].datetime = out[i].datetime /\ j < i

\* j is the row right before row i in that order
PreviousInSession(j, i) ==
    /\ EarlierInSession(j, i)
    /\ \A k \in OutRows : EarlierInSession(k, i) => (k = j \/ EarlierInSession(k, j))

(***************************************************************************)
(* C6: session monotonicity.  Within every session_global_id group taken   *)
(* in timestamp order the first row's in-session delta is 0, and every     *)
(* later row's delta is >= 0 and is the difference in milliseconds to the  *)
(* previous row of the session.                                            *)
(***************************************************************************)
C6_SessionMonotonic ==
    sess_pc = "done" =>
        \A i \in OutRows :
            /\ (\A j \in OutRows : ~EarlierInSession(j, i)) =>
                  out[i].datetime_delta_ms_in_session = 0
            /\ \A j \in OutRows : PreviousInSession(j, i) =>
                  /\ out[i].datetime_delta_ms_in_session >= 0
                  /\ out[i].datetime_delta_ms_in_session =
                         (out[i].datetime - out[j].datetime) * MsPerMinute

\* a session of two requests with a positive delta, cut out of a table
\* that arrived in another order
C6_Witness ==
    /\ sess_pc = "done"
    /\ \E i, j \in OutRows :
          PreviousInSession(j, i) /\ out[i].datetime_delta_ms_in_session > 0
    /\ \E i \in OutRows : out[i].index # i - 1

(***************************************************************************)
(* Views of the transformer used by the geo claims.                        *)
(***************************************************************************)
Range(q) == {q[i] : i \in DOMAIN q}

RECURSIVE SumRequests(_)
\* the lookups sent to the service in this run, over the addresses S
SumRequests(S) ==
    IF S = {} THEN 0
    ELSE LET a == CHOOSE x \in S : TRUE IN requests[a] + SumRequests(S \ {a})

\* the step was a call that resolves addresses
Resolving == call'.op \in {"get_country_from_ip", "transform_add_countrycode"}

\* the addresses stored in the cache file
FileAddrs == IF disk.exists THEN {p[1] : p \in disk.data} ELSE {}

(***************************************************************************)
(* C7: cache idempotence of resolve.  In one run every call that resolves  *)
(* addresses sends exactly one lookup for each distinct address it is      *)
(* given that is not in the cache and none for the others, whatever the    *)
(* lookups return; no address is ever looked up twice in a run, and an     *)
(* address that was looked up is in the cache.                             *)
(***************************************************************************)
C7_OneCallPerUncachedAddress ==
    /\ [](\A a \in Addrs :
             requests[a] <= 1 /\ (requests[a] = 1 => a \in DOMAIN ip_cache))
    /\ [][ /\ Resolving =>
                \A a \in Addrs :
                    requests'[a] = requests[a] +
                        (IF a \in Range(call'.ips) /\ a \notin DOMAIN ip_cache
                         THEN 1 ELSE 0)
           /\ call'.op = "save_cache" => requests' = requests ]_vars

\* a column that holds the same uncached address twice: the first lookup
\* failed, the second row was answered from the cache
C7_Witness ==
    /\ call.op = "transform_add_countrycode"
    /\ Len(call.ips) = 2 /\ call.ips[1] = call.ips[2]
    /\ call.outcomes = <<"fail", "cached">>
    /\ requests[call.ips[1]] = 1

(***************************************************************************)
(* C8: rate limiting.  Every call of get_country_from_ip that sent a       *)
(* lookup waits the delay before it returns, whatever the lookup returned, *)
(* and a call answered from the cache does not wait: in every run there    *)
(* are as many waits as lookups.                                           *)
(***************************************************************************)
C8_EveryRequestWaits ==
    geo_pc = "live" => sleeps = SumRequests(Addrs)

(***************************************************************************)
(* C9: failure caching without retry.  A failed lookup stores and returns  *)
(* 'Error', a response without the country field stores and returns        *)
(* 'Unknown'; for the rest of the run the entry stays, every resolve of    *)
(* the address returns it and sends no lookup; a save_cache that writes    *)
(* the file writes the entry, and a new instance that loads the file has   *)
(* it again.                                                               *)
(***************************************************************************)
Sentinels == {"Error", "Unknown"}

C9_Step ==
    /\ Resolving =>
          \A i \in DOMAIN call'.ips :
              /\ call'.outcomes[i] = "fail" =>
                    /\ call'.rets[i] = "Error"
                    /\ call'.ips[i] \in DOMAIN ip_cache'
                    /\ ip_cache'[call'.ips[i]] = "Error"
              /\ call'.outcomes[i] = "nocountry" =>
                    /\ call'.rets[i] = "Unknown"
                    /\ call'.ips[i] \in DOMAIN ip_cache'
                    /\ ip_cache'[call'.ips[i]] = "Unknown"
              /\ (call'.ips[i] \in DOMAIN ip_cache
                    /\ ip_cache[call'.ips[i]] \in Sentinels) =>
                    call'.rets[i] = ip_cache[call'.ips[i]]
    /\ call'.op # "__init__" =>
          \A a \in DOMAIN ip_cache : ip_cache[a] \in Sentinels =>
              /\ a \in DOMAIN ip_cache' /\ ip_cache'[a] = ip_cache[a]
              /\ requests'[a] = requests[a]
    /\ (call'.op \in {"save_cache", "transform_add_countrycode"} /\ call'.io = "ok") =>
          \A a \in DOMAIN ip_cache' : ip_cache'[a] \in Sentinels =>
              disk'.exists /\ <<a, ip_cache'[a]>> \in disk'.data
    /\ (call'.op = "__init__" /\ call'.io = "ok") =>
          \A p \in disk.data : p[2] \in Sentinels =>
              p[1] \in DOMAIN ip_cache' /\ ip_cache'[p[1]] = p[2]

C9_FailureCachedWithoutRetry == [][C9_Step]_vars

\* a later run: the instance loaded the file, and a resolve returned the
\* 'Error' of an earlier run without a lookup
C9_Witness ==
    /\ load_result = "ok"
    /\ call.op = "get_country_from_ip"
    /\ call.outcomes = <<"cached">> /\ call.rets = <<"Error">>
    /\ requests[call.ips[1]] = 0

(***************************************************************************)
(* C10: the geo cache only grows.  No step removes an address from the     *)
(* cache file, and no step of a run removes a key from the in-memory       *)
(* mapping.                                                                *)
(***************************************************************************)
C10_CacheOnlyGrows ==
    [][ /\ FileAddrs \subseteq FileAddrs'
        /\ call'.op # "__init__" => DOMAIN ip_cache \subseteq DOMAIN ip_cache' ]_vars

\* the members of the cache file are exactly the entries of mapping m
FileHolds(d, m) ==
    /\ d.exists
    /\ \A p \in d.data : p[1] \in DOMAIN m /\ m[p[1]] = p[2]
    /\ \A a \in DOMAIN m : <<a, m[a]>> \in d.data

(***************************************************************************)
(* C11: cache save/load round trip.  A save_cache that writes the file     *)
(* leaves in it exactly the entries of the in-memory mapping, and a new    *)
(* instance that loads the file holds exactly the entries of the file, so  *)
(* that it holds the mapping that was saved.  Without a configured cache   *)
(* file save_cache writes nothing; when the write fails, save_cache        *)
(* reports it and returns: the instance stays usable with its mapping.     *)
(***************************************************************************)
C11_Step ==
    /\ (call'.op \in {"save_cache", "transform_add_countrycode"} /\ call'.io = "ok") =>
          FileHolds(disk', ip_cache')
    /\ (call'.op = "__init__" /\ call'.io = "ok") =>
          FileHolds(disk, ip_cache')
    /\ (call'.op = "save_cache" /\ ~cache_file) =>
          call'.io = "noop" /\ disk' = disk
    /\ (call'.op = "save_cache" /\ call'.io # "ok") =>
          ip_cache' = ip_cache /\ geo_pc' = "live"

C11_SaveLoadRoundTrip == [][C11_Step]_vars

\* a new instance has loaded a file that an earlier instance saved with
\* two entries, one of them a sentinel
C11_Witness ==
    /\ call.op = "__init__" /\ call.io = "ok"
    /\ DOMAIN ip_cache = Addrs
    /\ \E a \in Addrs : ip_cache[a] = "Error"
    /\ \E a \in Addrs : ip_cache[a] = "ES"
    /\ FileHolds(disk, ip_cache)

\* the step read a line of the log; LastLine is its number
LineRead == Len(source_file') = Len(source_file) + 1
LastLine == Len(source_file')

\* q extends p
IsPrefix(p, q) == Len(p) <= Len(q) /\ SubSeq(q, 1, Len(p)) = p

(***************************************************************************)
(* C12: parse failures are absorbed per line.  Reading a line that does    *)
(* not match adds exactly that line to the error sink, leaves the record   *)
(* buffer, the parsed-line counter and the batch files as they are and     *)
(* keeps the ingestion reading; the sink is only ever appended to; every   *)
(* line read is accounted for, as a counted parsed line or as an entry of  *)
(* the sink, and a matching line read after failures is counted.           *)
(***************************************************************************)
C12_Step ==
    /\ IsPrefix(prog.errors, ing'[FlushThreshold].errors)
    /\ (LineRead /\ ~source_file'[LastLine]) =>
          /\ ing'[FlushThreshold].errors = Append(prog.errors, LastLine)
          /\ ing'[FlushThreshold].parsed_lines = prog.parsed_lines
          /\ ing'[FlushThreshold].linenumber = prog.linenumber
          /\ ing'[FlushThreshold].dir = prog.dir
          /\ ing_pc' = "reading"
    /\ (LineRead /\ source_file'[LastLine]) =>
          /\ ing'[FlushThreshold].linenumber = prog.linenumber + 1
          /\ ing'[FlushThreshold].errors = prog.errors

C12_ParseFailuresAbsorbed ==
    /\ [](ing_pc # "idle" => Len(prog.errors) + prog.linenumber = Len(source_file))
    /\ [][C12_Step]_vars

\* a line that failed, followed by a line that was parsed and returned
C12_Witness ==
    /\ ing_pc = "done"
    /\ \E i \in 1..(Len(source_file) - 1) :
          /\ ~source_file[i] /\ source_file[i + 1]
          /\ \E k \in DOMAIN prog.errors : prog.errors[k] = i
          /\ \E k \in DOMAIN prog.df : prog.df[k] = i + 1

\* a threshold crossing lies between rows i and j of the returned table
CrossingBetween(i, j) ==
    \E k \in i..(j - 1) : ConsecutiveOfClient(k) /\ Gap(k) > session_minutes

(***************************************************************************)
(* C14: session_global_id partitions the rows by client although the       *)
(* counter runs over the whole table.  Two rows with the same id have the  *)
(* same client and no threshold crossing between them, rows of different   *)
(* clients never share an id, and along the rows of one client in          *)
(* timestamp order the session number never decreases.                     *)
(***************************************************************************)
C14_IdsPartitionByClient ==
    sess_pc = "done" =>
        /\ \A i, j \in OutRows :
              (i < j /\ out[i].session_global_id = out[j].session_global_id) =>
                  out[i].client = out[j].client /\ ~CrossingBetween(i, j)
        /\ \A i, j \in OutRows :
              out[i].client # out[j].client =>
                  out[i].session_global_id # out[j].session_global_id
        /\ \A i, j \in OutRows :
              (out[i].client = out[j].client /\ out[i].datetime < out[j].datetime) =>
                  SeqNo(i) <= SeqNo(j)

\* two clients: the first has two sessions, the second starts with the
\* number the first one ended with
C14_Witness ==
    /\ sess_pc = "done"
    /\ \E i \in OutRows :
          /\ ConsecutiveOfClient(i) /\ SeqNo(i + 1) = SeqNo(i) + 1
          /\ \E j \in OutRows :
                out[j].client # out[i].client /\ SeqNo(j) = SeqNo(i + 1)

(***************************************************************************)
(* C13: the pipeline run by main on a log with valid lines passes through  *)
(* every stage and ends with the final feature table: every stage main     *)
(* invokes exists and runs, so main never ends in an uncaught exception.   *)
(***************************************************************************)
C13_PipelineRuns ==
    Len(raw_df) > 0 => main_pc # "raised"

(***************************************************************************)
(* Views of the pipeline used by the cleaning claim.                       *)
(***************************************************************************)
\* delete_rows_with_faulting_category has returned
Cleaned == main_pc \in {"delete_column", "raised"}

\* the ingested records of a table, in its order
Lines(t) == [i \in 1..Len(t) |-> t[i].line]

RECURSIVE Without(_, _)
\* sequence q without the entries equal to x
Without(q, x) ==
    IF q = <<>> THEN <<>>
    ELSE IF q[Len(q)] = x THEN Without(SubSeq(q, 1, Len(q) - 1), x)
    ELSE Append(Without(SubSeq(q, 1, Len(q) - 1), x), q[Len(q)])

\* where the first ingested record stands in transformed_df
FirstPos == CHOOSE i \in DOMAIN transformed_df : transformed_df[i].line = 1
FirstSession == transformed_df[FirstPos].session_global_id

\* the first ingested record is the first request of its session
FirstStartsSession ==
    \A j \in 1..(FirstPos - 1) : transformed_df[j].session_global_id # FirstSession

\* the parts of the claim that hold as claimed: one row fewer at least, the
\* first ingested record gone, the others in their order, a dense
\* zero-based index and no missing value
C15_RowsKept ==
    /\ Len(cleaned_df) <= Len(raw_df) - 1
    /\ Lines(cleaned_df) = Without(Lines(transformed_df), 1)
    /\ \A i \in DOMAIN cleaned_df :
          cleaned_df[i].index = i - 1 /\ ~HasMissing(cleaned_df[i])

(***************************************************************************)
(* C15 (as claimed): the global-delta-then-clean sequence removes the      *)
(* first ingested row: the cleaned table of a non-empty raw table has at   *)
(* most rows - 1 rows, keeps the remaining rows in their order with a      *)
(* dense zero-based index and no missing value, and a session whose first  *)
(* request was that row no longer has a row with in-session delta 0.       *)
(***************************************************************************)
C15_AsClaimed ==
    (Cleaned /\ Len(raw_df) > 0) =>
        /\ C15_RowsKept
        /\ FirstStartsSession =>
              \A i \in DOMAIN cleaned_df :
                  cleaned_df[i].session_global_id = FirstSession =>
                      cleaned_df[i].datetime_delta_ms_in_session # 0

\* row k of transformed_df follows in its session a request of the same
\* timestamp
SameTimeAsPrevious(k) ==
    /\ k > 1
    /\ transformed_df[k - 1].session_global_id = transformed_df[k].session_global_id
    /\ transformed_df[k - 1].datetime = transformed_df[k].datetime

(***************************************************************************)
(* C15 (amended): as claimed, except that a session whose first request    *)
(* was the removed row keeps a row with in-session delta 0 exactly for     *)
(* each remaining request that has the same timestamp as the request       *)
(* before it in the session.                                               *)
(***************************************************************************)
C15_FirstRowRemoved ==
    (Cleaned /\ Len(raw_df) > 0) =>
        /\ C15_RowsKept
        /\ FirstStartsSession =>
              \A k \in DOMAIN transformed_df :
                  (k # FirstPos /\ transformed_df[k].session_global_id = FirstSession) =>
                      \E i \in DOMAIN cleaned_df :
                          /\ cleaned_df[i].line = transformed_df[k].line
                          /\ cleaned_df[i].datetime_delta_ms_in_session = 0
                                <=> SameTimeAsPrevious(k)

\* the first ingested record opened a session of three requests in a table
\* that arrived unsorted; the two left have a positive in-session delta
C15_Witness ==
    /\ Cleaned /\ Len(raw_df) = 3 /\ Len(cleaned_df) = 2
    /\ FirstStartsSession
    /\ \A i \in DOMAIN cleaned_df :
          /\ cleaned_df[i].session_global_id = FirstSession
          /\ cleaned_df[i].datetime_delta_ms_in_session > 0
    /\ raw_df[2].datetime > raw_df[3].datetime

====
